---- MODULE Spec2Model ----
(***************************************************************************)
(* Fault-tolerance practice: a reservation saga over four Flask services.  *)
(*   services/inventory/app.py     the seat ledger (SEATS, _lock)          *)
(*   services/gateway/app.py       the admission gate (BoundedSemaphore)   *)
(*   services/reservations/app.py  the orchestrator (saga, store, retry)   *)
(*   services/payments/app.py      the payment stub                        *)
(*   services/notifications/app.py the notification stub                   *)
(* Every HTTP call is handled by its own thread of the called service; a   *)
(* caller that times out stops waiting while the handler keeps running.    *)
(* Time is abstract: a timeout may fire whenever the caller is waiting.    *)
(***************************************************************************)
EXTENDS Integers, Sequences, FiniteSets, TLC

(***************************************************************************)
(* Bounds of the model.                                                    *)
(***************************************************************************)
\* number of direct calls made to the inventory service (LedgerSpec)
NumCalls == 3
\* largest quantity a reserve or release call asks for
MaxQuantity == 2
\* largest seat count an admin reset writes
MaxSeats == 2

\* event ids the calls of LedgerSpec name: one the ledger knows, one it does not
CallEvents == {"concert-02", "concert-404"}

Quantities == 1..MaxQuantity
SeatCounts == 0..MaxSeats

VARIABLES
    SEATS,          \* inventory: event_id -> available seats (a dict: partial)
    lock,           \* inventory: the set of threads holding _lock ({} when free)
    CHAOS_FLAGS,    \* the fault-injection flags of the services
    inv,            \* inventory: one handler thread per call received
    stock,          \* history: SEATS[e] as the last release/reset (or start) left it
    reserved,       \* history: quantity granted by reserve calls since then
    MAX_INFLIGHT,   \* gateway: the configured capacity (environment, default 5)
    inflight_semaphore, \* gateway: the counter of the BoundedSemaphore
    gw,             \* gateway: one handler thread per client request
    saga,           \* orchestrator: one handler thread per forwarded request
    reservations,   \* orchestrator: the rows of the reservations table
    payments        \* payments: one handler thread per pay call

invVars == <<SEATS, lock, inv, stock, reserved>>
gwVars == <<MAX_INFLIGHT, inflight_semaphore, gw>>
orchVars == <<saga, reservations>>
upstream == <<gwVars, orchVars, payments>>
backend == <<invVars, CHAOS_FLAGS, reservations, payments>>
vars == <<invVars, CHAOS_FLAGS, gwVars, orchVars, payments>>

(***************************************************************************)
(* services/inventory/app.py                                               *)
(***************************************************************************)
\* SEATS as the module defines it
InitialSeats == [e \in {"concert-01", "concert-02"} |->
                    IF e = "concert-01" THEN 5 ELSE 3]

\* dict.get(key, default)
Get(dict, key, default) == IF key \in DOMAIN dict THEN dict[key] ELSE default

\* dict[key] = value
Put(dict, key, value) ==
    [k \in DOMAIN dict \cup {key} |-> IF k = key THEN value ELSE dict[k]]

\* a handler thread that has received no call
IdleCall == [pc |-> "idle", op |-> "none", event_id |-> "none", quantity |-> 0,
             seats |-> 0, available |-> 0, status |-> 0, remaining |-> 0,
             clean |-> TRUE, outage |-> FALSE]
\* (clean and outage are history: no write on the event since the call was
\* received; the crash flag was set when the release or reset call that has
\* yet to answer wrote the ledger)

\* the thread of a call that has just been received
NewCall(op, e, q, s) ==
    [IdleCall EXCEPT !.pc = "acquire", !.op = op, !.event_id = e,
                     !.quantity = q, !.seats = s]

\* the end of a `with _lock:` block, lines 62-72, 91-93 and 104-106: the
\* thread gives the lock back on every way out, the return of line 70 included
KeepLock(holders, t) == holders
Exit(holders, t) == holders \ {t}

\* `with _lock:` lets a thread in when no thread holds the lock
NoLockCanAcquire(holders) == TRUE
CanAcquire(holders) == holders = {}

\* `if available < quantity` of reserve
NoCheckInsufficient(available, quantity) == FALSE
Insufficient(available, quantity) == available < quantity

\* history: a release or reset write on e ends the period stock and reserved
\* count over; the calls on e received before it are no longer clean
Touched(calls, e) ==
    [t \in DOMAIN calls |->
        IF calls[t].event_id = e
        THEN [calls[t] EXCEPT !.clean = FALSE] ELSE calls[t]]

\* release(), lines 80-88: the crash flag is not read, the call goes on to
\* the lock whatever the flag
ReleaseRefusedOnCrash(e, q) ==
    IF CHAOS_FLAGS.crash
    THEN [NewCall("release", e, q, 0) EXCEPT !.pc = "done", !.status = 503]
    ELSE NewCall("release", e, q, 0)
ReleaseReceived(e, q) == NewCall("release", e, q, 0)

\* reserve(), lines 41-54: the crash flag answers 503 before anything else
CrashIgnored(t, e, q) == NewCall("reserve", e, q, 0)
ReserveReceived(t, e, q) ==
    IF CHAOS_FLAGS.crash
    THEN [NewCall("reserve", e, q, 0) EXCEPT !.pc = "done", !.status = 503]
    ELSE NewCall("reserve", e, q, 0)

\* reserve(), lines 62-64: enter the critical section and read the count
\* release(), line 91 and reset(), line 104: enter the critical section
InvEnter(t) ==
    /\ inv[t].pc = "acquire"
    /\ CanAcquire(lock)
    /\ lock' = lock \cup {t}
    /\ inv' = [inv EXCEPT ![t].pc = "locked",
                          ![t].available = Get(SEATS, inv[t].event_id, 0)]
    /\ UNCHANGED <<SEATS, CHAOS_FLAGS, stock, reserved, upstream>>

\* reserve(), lines 67-72: 409 without a write, or the decrement; the with
\* block then releases the lock
InvReserveCommit(t) ==
    /\ inv[t].pc = "locked"
    /\ inv[t].op = "reserve"
    /\ lock' = Exit(lock, t)
    /\ IF Insufficient(inv[t].available, inv[t].quantity)
       THEN /\ inv' = [inv EXCEPT ![t].pc = "done", ![t].status = 409]
            /\ UNCHANGED <<SEATS, reserved>>
       ELSE /\ SEATS' = Put(SEATS, inv[t].event_id,
                            inv[t].available - inv[t].quantity)
            /\ reserved' = [reserved EXCEPT
                              ![inv[t].event_id] = @ + inv[t].quantity]
            /\ inv' = [inv EXCEPT ![t].pc = "respond"]
    /\ UNCHANGED <<CHAOS_FLAGS, stock, upstream>>

\* `SEATS.get(event_id, 0) + quantity` of release, line 93
IncrementByOne(current, quantity) == current + 1
Increment(current, quantity) == current + quantity

\* `SEATS[event_id] = seats` of reset, line 106
AddSeats(current, seats) == current + seats
Overwrite(current, seats) == seats

\* release(), lines 91-93: the unconditional increment
InvReleaseCommit(t) ==
    /\ inv[t].pc = "locked"
    /\ inv[t].op = "release"
    /\ lock' = Exit(lock, t)
    /\ LET e == inv[t].event_id
           v == Increment(Get(SEATS, e, 0), inv[t].quantity)
       IN  /\ SEATS' = Put(SEATS, e, v)
           /\ stock' = [stock EXCEPT ![e] = v]
           /\ reserved' = [reserved EXCEPT ![e] = 0]
           /\ inv' = [Touched(inv, e) EXCEPT ![t].pc = "respond",
                                             ![t].outage = CHAOS_FLAGS.crash]
    /\ UNCHANGED <<CHAOS_FLAGS, upstream>>

\* reset(), lines 104-106: the unconditional overwrite
InvResetCommit(t) ==
    /\ inv[t].pc = "locked"
    /\ inv[t].op = "reset"
    /\ lock' = Exit(lock, t)
    /\ LET e == inv[t].event_id
           v == Overwrite(Get(SEATS, e, 0), inv[t].seats)
       IN  /\ SEATS' = Put(SEATS, e, v)
           /\ stock' = [stock EXCEPT ![e] = v]
           /\ reserved' = [reserved EXCEPT ![e] = 0]
           /\ inv' = [Touched(inv, e) EXCEPT ![t].pc = "respond",
                                             ![t].outage = CHAOS_FLAGS.crash]
    /\ UNCHANGED <<CHAOS_FLAGS, upstream>>

\* lines 75, 94, 107: the answer reads SEATS[event_id] after the lock is released
InvRespond(t) ==
    /\ inv[t].pc = "respond"
    /\ inv' = [inv EXCEPT ![t].pc = "done", ![t].status = 200,
                          ![t].remaining = SEATS[inv[t].event_id],
                          ![t].outage = FALSE]
    /\ UNCHANGED <<SEATS, lock, CHAOS_FLAGS, stock, reserved, upstream>>

\* crash(), lines 111-119
crash(enabled) ==
    /\ CHAOS_FLAGS' = [CHAOS_FLAGS EXCEPT !.crash = enabled]
    /\ UNCHANGED <<invVars, upstream>>

\* every event id the model names
AllEvents == DOMAIN InitialSeats \cup CallEvents

\* lines 16-30: the module's state when the service starts
InitInventory ==
    /\ SEATS = InitialSeats
    /\ lock = {}
    /\ CHAOS_FLAGS = [crash |-> FALSE, fail |-> FALSE, db_flapping |-> FALSE,
                      down |-> FALSE]
    /\ stock = [e \in AllEvents |-> Get(InitialSeats, e, 0)]
    /\ reserved = [e \in AllEvents |-> 0]

(***************************************************************************)
(* services/gateway/app.py                                                 *)
(***************************************************************************)
\* the default of os.getenv("MAX_INFLIGHT", "5")
DEFAULT_MAX_INFLIGHT == 5

\* a gateway thread whose request has not arrived (acquired, released,
\* forwarded and full are history: what the thread did and found)
NewRequest == [pc |-> "new", status |-> 0, acquired |-> 0, released |-> 0,
               forwarded |-> FALSE, full |-> FALSE]

\* the result of a requests.post: a response with its status code, a
\* requests.Timeout, or another RequestException
NoResult == [kind |-> "none", status |-> 0]
Response(status) == [kind |-> "response", status |-> status]
TimedOut == [kind |-> "timeout", status |-> 0]
Unavailable == [kind |-> "unavailable", status |-> 0]

\* an orchestrator thread that has been sent nothing. log (the calls issued,
\* in order) is history; body names the service whose JSON body is returned;
\* last_error is the attempt whose error save_reservation holds (0 for None)
IdleSaga == [pc |-> "idle", status |-> 0, body |-> "none",
             event_id |-> "none", quantity |-> 0,
             inventory_response |-> NoResult, payment_response |-> NoResult,
             release_response |-> NoResult,
             notification_response |-> NoResult,
             attempt |-> 0, last_error |-> 0, saved |-> FALSE,
             notified |-> FALSE, log |-> <<>>]

\* _inflight_semaphore.acquire(blocking=False): TRUE when a slot is free
LaxTryAcquire(value) == TRUE
KeepsOneSlotFree(value) == value > 1
TryAcquire(value) == value > 0

\* _inflight_semaphore.release() of the finally block
LeakyFinally(value) == value
Finally(value) == IF value >= MAX_INFLIGHT THEN value ELSE value + 1

\* BoundedSemaphore.release() raises ValueError above the initial value: the
\* handler then ends with an unhandled exception
Answer(status, value) == IF value >= MAX_INFLIGHT THEN 500 ELSE status

\* history: the requests that hold a slot (acquired and not yet released)
SlotHolders == {o \in DOMAIN gw : gw[o].acquired > gw[o].released}

\* history: MAX_INFLIGHT requests hold a slot
AllSlotsHeld == Cardinality(SlotHolders) = MAX_INFLIGHT

\* history: every admitted request is still in progress
NoneFinished == \A o \in DOMAIN gw : ~(gw[o].pc = "done" /\ gw[o].acquired > 0)

\* lines 53-57: no slot is free, 429 at once
GwReject(r) ==
    /\ gw[r].pc = "new"
    /\ ~TryAcquire(inflight_semaphore)
    /\ gw' = [gw EXCEPT ![r].pc = "done", ![r].status = 429,
                        ![r].full = AllSlotsHeld]
    /\ UNCHANGED <<MAX_INFLIGHT, inflight_semaphore, saga, backend>>

\* lines 53-70: a slot is taken, the body parsed and the request posted to
\* the orchestrator
GwAdmit(r, e, q) ==
    /\ gw[r].pc = "new"
    /\ TryAcquire(inflight_semaphore)
    /\ inflight_semaphore' = inflight_semaphore - 1
    /\ gw' = [gw EXCEPT ![r].pc = "waiting", ![r].acquired = @ + 1,
                        ![r].forwarded = TRUE, ![r].full = AllSlotsHeld]
    /\ saga' = [saga EXCEPT ![r] = [IdleSaga EXCEPT !.pc = "sent",
                                       !.event_id = e, !.quantity = q]]
    /\ UNCHANGED <<MAX_INFLIGHT, backend>>

\* lines 53-61, 88-91: a slot is taken, get_json(force=True) raises on a body
\* that does not parse, and the finally block releases the slot
GwBadRequest(r) ==
    /\ gw[r].pc = "new"
    /\ TryAcquire(inflight_semaphore)
    /\ inflight_semaphore' = Finally(inflight_semaphore - 1)
    /\ gw' = [gw EXCEPT ![r].pc = "done",
                        ![r].status = Answer(400, inflight_semaphore - 1),
                        ![r].acquired = @ + 1, ![r].released = @ + 1,
                        ![r].full = AllSlotsHeld]
    /\ UNCHANGED <<MAX_INFLIGHT, saga, backend>>

\* lines 72, 88-91: the orchestrator's answer is relayed, the slot released
GwRelay(r) ==
    /\ gw[r].pc = "waiting"
    /\ saga[r].pc = "done"
    /\ inflight_semaphore' = Finally(inflight_semaphore)
    /\ gw' = [gw EXCEPT ![r].pc = "done",
                        ![r].status = Answer(saga[r].status, inflight_semaphore),
                        ![r].released = @ + 1]
    /\ UNCHANGED <<MAX_INFLIGHT, saga, backend>>

\* lines 74-79, 88-91: no answer within 5 seconds: 504, the slot released;
\* the orchestrator is not told and keeps working
GwTimeout(r) ==
    /\ gw[r].pc = "waiting"
    /\ inflight_semaphore' = Finally(inflight_semaphore)
    /\ gw' = [gw EXCEPT ![r].pc = "done",
                        ![r].status = Answer(504, inflight_semaphore),
                        ![r].released = @ + 1]
    /\ UNCHANGED <<MAX_INFLIGHT, saga, backend>>

\* lines 81-86, 88-91: the post fails at transport level (the orchestrator
\* never gets the request): 503, the slot released
GwUnavailable(r) ==
    /\ gw[r].pc = "waiting"
    /\ saga[r].pc = "sent"
    /\ saga' = [saga EXCEPT ![r].pc = "lost"]
    /\ inflight_semaphore' = Finally(inflight_semaphore)
    /\ gw' = [gw EXCEPT ![r].pc = "done",
                        ![r].status = Answer(503, inflight_semaphore),
                        ![r].released = @ + 1]
    /\ UNCHANGED <<MAX_INFLIGHT, backend>>

(***************************************************************************)
(* services/payments/app.py                                                *)
(***************************************************************************)
\* a payment thread that has been sent nothing
IdlePay == [pc |-> "idle", status |-> 0]

\* pay(), lines 31-66: after the configured latency (the time this action
\* takes to fire), 502 when the fail flag is set, else the charge is approved
pay(r) ==
    /\ payments[r].pc = "sent"
    /\ payments' = [payments EXCEPT
                      ![r] = [pc |-> "done",
                              status |-> IF CHAOS_FLAGS.fail THEN 502 ELSE 200]]
    /\ UNCHANGED <<invVars, CHAOS_FLAGS, gwVars, orchVars>>

\* chaos_fail(), lines 82-90
chaos_fail(enabled) ==
    /\ CHAOS_FLAGS' = [CHAOS_FLAGS EXCEPT !.fail = enabled]
    /\ UNCHANGED <<invVars, upstream>>

(***************************************************************************)
(* services/notifications/app.py                                           *)
(***************************************************************************)
\* send(), lines 27-51: the status code of the answer
send == IF CHAOS_FLAGS.down THEN 503 ELSE 200

\* down(), lines 55-60
down(enabled) ==
    /\ CHAOS_FLAGS' = [CHAOS_FLAGS EXCEPT !.down = enabled]
    /\ UNCHANGED <<invVars, upstream>>

(***************************************************************************)
(* services/inventory/app.py, called by the orchestrator: each saga has one *)
(* thread for its reserve call and one for its release call                *)
(***************************************************************************)
ReserveCall(r) == <<r, "reserve">>
ReleaseCall(r) == <<r, "release">>

\* a call that was posted and has not reached the service
SentCall(op, e, q) == [NewCall(op, e, q, 0) EXCEPT !.pc = "sent"]

\* the service receives a posted call: reserve() to line 54, release() to
\* line 88
InvReceive(t) ==
    /\ inv[t].pc = "sent"
    /\ inv' = [inv EXCEPT ![t] =
                 IF inv[t].op = "reserve"
                 THEN ReserveReceived(t, inv[t].event_id, inv[t].quantity)
                 ELSE ReleaseReceived(inv[t].event_id, inv[t].quantity)]
    /\ UNCHANGED <<SEATS, lock, CHAOS_FLAGS, stock, reserved, upstream>>

(***************************************************************************)
(* services/reservations/app.py                                            *)
(***************************************************************************)
\* save_reservation(payload, retries=3, ...)
retries == 3

\* the row an INSERT adds: AUTOINCREMENT numbers the rows 1, 2, ...
Row(r, sg) == [id |-> Len(reservations) + 1, user_id |-> r,
               event_id |-> sg.event_id, quantity |-> sg.quantity]

\* an answer with the orchestrator's own JSON body
Own(sg, status) == [sg EXCEPT !.pc = "done", !.status = status,
                              !.body = "reservations"]

\* `status_code >= 400` of lines 147, 191 and 221
NeverError(status) == FALSE
IsError(status) == status >= 400

\* _release_inventory(payload), line 318: the payload of the request is
\* posted to /release of the inventory
ForgetRelease(r, sg) == inv
DefaultQuantityRelease(r, sg) ==
    [inv EXCEPT ![ReleaseCall(r)] = SentCall("release", sg.event_id, 1)]
ReleaseInventory(r, sg) ==
    [inv EXCEPT ![ReleaseCall(r)] =
       SentCall("release", sg.event_id, sg.quantity)]

\* the orchestrator waits for /release with its answer to the client decided
PostRelease(sg, status, body) ==
    [sg EXCEPT !.pc = "release", !.status = status, !.body = body,
               !.log = Append(@, "release")]

\* lines 228-241: requests.Timeout of /pay: release, then 504
PaymentTimeoutAsRejection(sg) ==
    PostRelease([sg EXCEPT !.payment_response = TimedOut], 502, "reservations")
PaymentTimeout(sg) ==
    PostRelease([sg EXCEPT !.payment_response = TimedOut], 504, "reservations")

\* lines 242-253: another RequestException of /pay: release, then 503
PaymentUnavailable(sg) ==
    PostRelease([sg EXCEPT !.payment_response = Unavailable], 503,
                "reservations")

\* lines 176-189: the request is read and /reserve of the inventory posted
SagaReserve(r) ==
    /\ saga[r].pc = "sent"
    /\ saga' = [saga EXCEPT ![r].pc = "inventory",
                            ![r].log = Append(@, "inventory")]
    /\ inv' = [inv EXCEPT ![ReserveCall(r)] =
                 SentCall("reserve", saga[r].event_id, saga[r].quantity)]
    /\ UNCHANGED <<SEATS, lock, stock, reserved, CHAOS_FLAGS, gwVars,
                   reservations, payments>>

\* lines 191-196 and 214-219: the inventory answered: an error status is
\* relayed with its body, otherwise /pay is posted
SagaInventoryAnswer(r) ==
    /\ saga[r].pc = "inventory"
    /\ inv[ReserveCall(r)].pc = "done"
    /\ LET status == inv[ReserveCall(r)].status
           sg == [saga[r] EXCEPT !.inventory_response = Response(status)]
       IN  IF IsError(status)
           THEN /\ saga' = [saga EXCEPT ![r] =
                              [sg EXCEPT !.pc = "done", !.status = status,
                                         !.body = "inventory"]]
                /\ UNCHANGED payments
           ELSE /\ saga' = [saga EXCEPT ![r] =
                              [sg EXCEPT !.pc = "payment",
                                         !.log = Append(@, "payment")]]
                /\ payments' = [payments EXCEPT ![r].pc = "sent"]
    /\ UNCHANGED <<invVars, CHAOS_FLAGS, gwVars, reservations>>

\* lines 197-208: no answer from the inventory within 2 seconds
SagaInventoryTimeout(r) ==
    /\ saga[r].pc = "inventory"
    /\ saga' = [saga EXCEPT ![r] =
                  Own([saga[r] EXCEPT !.inventory_response = TimedOut], 503)]
    /\ UNCHANGED <<invVars, CHAOS_FLAGS, gwVars, reservations, payments>>

\* lines 197-208: the post to the inventory fails at transport level; the
\* call never reaches the service
SagaInventoryUnavailable(r) ==
    /\ saga[r].pc = "inventory"
    /\ inv[ReserveCall(r)].pc = "sent"
    /\ inv' = [inv EXCEPT ![ReserveCall(r)].pc = "lost"]
    /\ saga' = [saga EXCEPT ![r] =
                  Own([saga[r] EXCEPT !.inventory_response = Unavailable], 503)]
    /\ UNCHANGED <<SEATS, lock, stock, reserved, CHAOS_FLAGS, gwVars,
                   reservations, payments>>

\* lines 221-227 and 260: the payment service answered: on an error status
\* the seats are released and the answer relayed, otherwise save_reservation
\* starts
SagaPaymentAnswer(r) ==
    /\ saga[r].pc = "payment"
    /\ payments[r].pc = "done"
    /\ LET status == payments[r].status
           sg == [saga[r] EXCEPT !.payment_response = Response(status)]
       IN  IF IsError(status)
           THEN /\ saga' = [saga EXCEPT ![r] =
                              PostRelease(sg, status, "payments")]
                /\ inv' = ReleaseInventory(r, sg)
           ELSE /\ saga' = [saga EXCEPT ![r] =
                              [sg EXCEPT !.pc = "persist",
                                         !.log = Append(@, "persist")]]
                /\ UNCHANGED inv
    /\ UNCHANGED <<SEATS, lock, stock, reserved, CHAOS_FLAGS, gwVars,
                   reservations, payments>>

\* lines 228-241: no answer from the payment service within 3 seconds
SagaPaymentTimeout(r) ==
    /\ saga[r].pc = "payment"
    /\ saga' = [saga EXCEPT ![r] = PaymentTimeout(saga[r])]
    /\ inv' = ReleaseInventory(r, saga[r])
    /\ UNCHANGED <<SEATS, lock, stock, reserved, CHAOS_FLAGS, gwVars,
                   reservations, payments>>

\* lines 242-253: the post to the payment service fails at transport level
SagaPaymentUnavailable(r) ==
    /\ saga[r].pc = "payment"
    /\ payments[r].pc = "sent"
    /\ payments' = [payments EXCEPT ![r].pc = "lost"]
    /\ saga' = [saga EXCEPT ![r] = PaymentUnavailable(saga[r])]
    /\ inv' = ReleaseInventory(r, saga[r])
    /\ UNCHANGED <<SEATS, lock, stock, reserved, CHAOS_FLAGS, gwVars,
                   reservations>>

\* `for attempt in range(1, retries + 1)` of line 92: the pass that has just
\* failed was the last one
NeverExhausted(attempt) == FALSE
Exhausted(attempt) == attempt >= retries

\* lines 261-274: save_reservation returned False: release, then 503
SaveFailedAsTimeout(sg) == PostRelease(sg, 504, "reservations")
SaveFailed(sg) == PostRelease(sg, 503, "reservations")

\* lines 96-97: the flapping fault is raised before sqlite3.connect and the
\* INSERT of lines 100-115, so the failed attempt leaves the table as it was
FlapAfterInsert(rows, row) == Append(rows, row)
FlapBeforeInsert(rows, row) == rows

\* save_reservation(), lines 92-125, one pass of the loop: the attempt fails
\* before the INSERT when db_flapping is set and random() < 0.5, and inserts
\* the row otherwise; lines 261-281: after the last failed attempt the seats
\* are released, after the INSERT /send is posted
SaveAttempt(r, flap) ==
    /\ saga[r].pc = "persist"
    /\ LET sg == [saga[r] EXCEPT !.attempt = @ + 1]
           failed == [sg EXCEPT !.last_error = sg.attempt]
       IN  IF CHAOS_FLAGS.db_flapping /\ flap
           THEN /\ reservations' = FlapBeforeInsert(reservations, Row(r, sg))
                /\ IF Exhausted(sg.attempt)
                   THEN /\ saga' = [saga EXCEPT ![r] = SaveFailed(failed)]
                        /\ inv' = ReleaseInventory(r, failed)
                   ELSE /\ saga' = [saga EXCEPT ![r] = failed]
                        /\ UNCHANGED inv
           ELSE /\ reservations' = Append(reservations, Row(r, sg))
                /\ saga' = [saga EXCEPT ![r] =
                              [sg EXCEPT !.pc = "notify", !.saved = TRUE,
                                         !.log = Append(@, "notify")]]
                /\ UNCHANGED inv
    /\ UNCHANGED <<SEATS, lock, stock, reserved, CHAOS_FLAGS, gwVars, payments>>

\* notify_user(), lines 143-152: (True, None) for an answer below 400,
\* (False, message) otherwise; lines 281-299: 200 with notification.sent
Sent(result) == result.kind = "response" /\ ~IsError(result.status)
StrictNotified(sg, result) ==
    Own([sg EXCEPT !.notification_response = result,
                   !.notified = Sent(result)],
        IF Sent(result) THEN 200 ELSE 503)
Notified(sg, result) ==
    Own([sg EXCEPT !.notification_response = result,
                   !.notified = Sent(result)], 200)

\* notify_user(), lines 143-149, and lines 287-299: the notification service
\* answered; 200 whatever it said
SagaNotifyAnswer(r) ==
    /\ saga[r].pc = "notify"
    /\ saga' = [saga EXCEPT ![r] = Notified(saga[r], Response(send))]
    /\ UNCHANGED <<invVars, CHAOS_FLAGS, gwVars, reservations, payments>>

\* notify_user(), lines 150-152: timeout or transport failure of /send
SagaNotifyFailed(r, result) ==
    /\ saga[r].pc = "notify"
    /\ saga' = [saga EXCEPT ![r] = Notified(saga[r], result)]
    /\ UNCHANGED <<invVars, CHAOS_FLAGS, gwVars, reservations, payments>>

\* _release_inventory(), lines 317-322: the result of the post is dropped,
\* whatever it is, and the answer decided before is returned
AwaitedRelease(sg, result) ==
    IF result.kind = "response"
    THEN [sg EXCEPT !.pc = "done", !.release_response = result]
    ELSE [sg EXCEPT !.release_response = result]
SurfacedRelease(sg, result) ==
    [sg EXCEPT !.pc = "done", !.release_response = result,
               !.status = IF result.kind = "response" THEN @ ELSE 500]
ReleaseDone(sg, result) ==
    [sg EXCEPT !.pc = "done", !.release_response = result]

\* _release_inventory(), line 318: /release answered; its answer is dropped
SagaReleaseAnswer(r) ==
    /\ saga[r].pc = "release"
    /\ inv[ReleaseCall(r)].pc = "done"
    /\ saga' = [saga EXCEPT ![r] =
                  ReleaseDone(saga[r], Response(inv[ReleaseCall(r)].status))]
    /\ UNCHANGED <<invVars, CHAOS_FLAGS, gwVars, reservations, payments>>

\* _release_inventory(), lines 319-322: no answer within 2 seconds, ignored
SagaReleaseTimeout(r) ==
    /\ saga[r].pc = "release"
    /\ saga' = [saga EXCEPT ![r] = ReleaseDone(saga[r], TimedOut)]
    /\ UNCHANGED <<invVars, CHAOS_FLAGS, gwVars, reservations, payments>>

\* _release_inventory(), lines 319-322: the post fails at transport level and
\* never reaches the inventory, ignored
SagaReleaseUnavailable(r) ==
    /\ saga[r].pc = "release"
    /\ inv[ReleaseCall(r)].pc = "sent"
    /\ inv' = [inv EXCEPT ![ReleaseCall(r)].pc = "lost"]
    /\ saga' = [saga EXCEPT ![r] = ReleaseDone(saga[r], Unavailable)]
    /\ UNCHANGED <<SEATS, lock, stock, reserved, CHAOS_FLAGS, gwVars,
                   reservations, payments>>

\* toggle_db_flap(), lines 326-338
toggle_db_flap(enabled) ==
    /\ CHAOS_FLAGS' = [CHAOS_FLAGS EXCEPT !.db_flapping = enabled]
    /\ UNCHANGED <<invVars, upstream>>

(***************************************************************************)
(* LoadSpec: scripts/load_gateway.py against the gateway with its default  *)
(* capacity. The orchestrator is reduced to the answer it gives.           *)
(***************************************************************************)
\* --requests of the load script: one more than the capacity
NumLoad == 6

\* the status code the orchestrator answers with when its services are up and
\* seats are left; the gateway relays whatever code it gets the same way
LoadStatuses == {200}

\* scripts/load_gateway.py, lines 36-41: the payload of every request
LoadEvent == "concert-01"
LoadQuantity == 1

\* the orchestrator answers a request the gateway still waits for
Upstream(r, status) ==
    /\ gw[r].pc = "waiting"
    /\ saga[r].pc = "sent"
    /\ saga' = [saga EXCEPT ![r].pc = "done", ![r].status = status]
    /\ UNCHANGED <<gwVars, backend>>

LoadInit ==
    /\ InitInventory
    /\ inv = <<>>
    /\ MAX_INFLIGHT = DEFAULT_MAX_INFLIGHT
    /\ inflight_semaphore = MAX_INFLIGHT
    /\ gw = [r \in 1..NumLoad |-> NewRequest]
    /\ saga = [r \in 1..NumLoad |-> IdleSaga]
    /\ reservations = <<>>
    /\ payments = <<>>

LoadNext ==
    \/ \E r \in DOMAIN gw : GwReject(r)
    \/ \E r \in DOMAIN gw : GwAdmit(r, LoadEvent, LoadQuantity)
    \/ \E r \in DOMAIN gw : GwRelay(r)
    \/ \E r \in DOMAIN gw : GwTimeout(r)
    \/ \E r \in DOMAIN gw, status \in LoadStatuses : Upstream(r, status)

LoadSpec == LoadInit /\ [][LoadNext]_vars

(***************************************************************************)
(* LedgerSpec: the inventory service under NumCalls direct calls, each     *)
(* handled by its own thread.                                              *)
(***************************************************************************)
LedgerCalls == 1..NumCalls

\* POST /reserve arrives
reserve(t, e, q) ==
    /\ inv[t].pc = "idle"
    /\ inv' = [inv EXCEPT ![t] = ReserveReceived(t, e, q)]
    /\ UNCHANGED <<SEATS, lock, CHAOS_FLAGS, stock, reserved, upstream>>

\* POST /release arrives
release(t, e, q) ==
    /\ inv[t].pc = "idle"
    /\ inv' = [inv EXCEPT ![t] = ReleaseReceived(e, q)]
    /\ UNCHANGED <<SEATS, lock, CHAOS_FLAGS, stock, reserved, upstream>>

\* POST /admin/reset arrives
reset(t, e, s) ==
    /\ inv[t].pc = "idle"
    /\ inv' = [inv EXCEPT ![t] = NewCall("reset", e, 0, s)]
    /\ UNCHANGED <<SEATS, lock, CHAOS_FLAGS, stock, reserved, upstream>>

\* the gateway and the orchestrator receive nothing in LedgerSpec
LedgerInit ==
    /\ InitInventory
    /\ inv = [t \in LedgerCalls |-> IdleCall]
    /\ MAX_INFLIGHT = DEFAULT_MAX_INFLIGHT
    /\ inflight_semaphore = DEFAULT_MAX_INFLIGHT
    /\ gw = <<>>
    /\ saga = <<>>
    /\ reservations = <<>>
    /\ payments = <<>>

LedgerNext ==
    \/ \E t \in LedgerCalls, e \in CallEvents, q \in Quantities : reserve(t, e, q)
    \/ \E t \in LedgerCalls, e \in CallEvents, q \in Quantities : release(t, e, q)
    \/ \E t \in LedgerCalls, e \in CallEvents, s \in SeatCounts : reset(t, e, s)
    \/ \E b \in BOOLEAN : crash(b)
    \/ \E t \in DOMAIN inv : InvEnter(t)
    \/ \E t \in DOMAIN inv : InvReserveCommit(t)
    \/ \E t \in DOMAIN inv : InvReleaseCommit(t)
    \/ \E t \in DOMAIN inv : InvResetCommit(t)
    \/ \E t \in DOMAIN inv : InvRespond(t)

LedgerSpec == LedgerInit /\ [][LedgerNext]_vars

(***************************************************************************)
(* Spec: the whole system, NumReq client requests sent to the gateway.     *)
(***************************************************************************)
\* number of client requests
NumReq == 2
\* MAX_INFLIGHT as the environment of the gateway sets it
Capacity == 1

Requests == 1..NumReq

\* the event the clients ask for (scripts/race_condition.py, lines 27-32)
ReqEvents == {"concert-02"}

\* the quantity the clients ask for: the 3 seats of the event serve only one
\* of two requests
ReqQuantities == {MaxQuantity}

Init ==
    /\ InitInventory
    /\ inv = [t \in Requests \X {"reserve", "release"} |-> IdleCall]
    /\ MAX_INFLIGHT = Capacity
    /\ inflight_semaphore = MAX_INFLIGHT
    /\ gw = [r \in Requests |-> NewRequest]
    /\ saga = [r \in Requests |-> IdleSaga]
    /\ reservations = <<>>
    /\ payments = [r \in Requests |-> IdlePay]

Next ==
    \/ \E r \in Requests : GwReject(r)
    \/ \E r \in Requests, e \in ReqEvents, q \in ReqQuantities :
          GwAdmit(r, e, q)
    \/ \E r \in Requests : GwBadRequest(r)
    \/ \E r \in Requests : GwRelay(r)
    \/ \E r \in Requests : GwTimeout(r)
    \/ \E r \in Requests : GwUnavailable(r)
    \/ \E r \in Requests : SagaReserve(r)
    \/ \E r \in Requests : SagaInventoryAnswer(r)
    \/ \E r \in Requests : SagaInventoryTimeout(r)
    \/ \E r \in Requests : SagaInventoryUnavailable(r)
    \/ \E r \in Requests : SagaPaymentAnswer(r)
    \/ \E r \in Requests : SagaPaymentTimeout(r)
    \/ \E r \in Requests : SagaPaymentUnavailable(r)
    \/ \E r \in Requests, flap \in BOOLEAN : SaveAttempt(r, flap)
    \/ \E r \in Requests : SagaNotifyAnswer(r)
    \/ \E r \in Requests, result \in {TimedOut, Unavailable} :
          SagaNotifyFailed(r, result)
    \/ \E r \in Requests : SagaReleaseAnswer(r)
    \/ \E r \in Requests : SagaReleaseTimeout(r)
    \/ \E r \in Requests : SagaReleaseUnavailable(r)
    \/ \E r \in Requests : pay(r)
    \/ \E t \in DOMAIN inv : InvReceive(t)
    \/ \E t \in DOMAIN inv : InvEnter(t)
    \/ \E t \in DOMAIN inv : InvReserveCommit(t)
    \/ \E t \in DOMAIN inv : InvReleaseCommit(t)
    \/ \E t \in DOMAIN inv : InvRespond(t)
    \/ \E b \in BOOLEAN : crash(b)
    \/ \E b \in BOOLEAN : chaos_fail(b)
    \/ \E b \in BOOLEAN : toggle_db_flap(b)
    \/ \E b \in BOOLEAN : down(b)

Spec == Init /\ [][Next]_vars

(***************************************************************************)
(* The orchestrator and the services behind it: NumReq clients post their  *)
(* payload to /reserve of the orchestrator while the chaos endpoints are   *)
(* used at will.                                                           *)
(***************************************************************************)
\* reserve(), lines 159-160: a request arrives at /reserve
ClientPost(r, e, q) ==
    /\ saga[r].pc = "idle"
    /\ saga' = [saga EXCEPT ![r] = [IdleSaga EXCEPT !.pc = "sent",
                                       !.event_id = e, !.quantity = q]]
    /\ UNCHANGED <<gwVars, backend>>

SagaInit ==
    /\ InitInventory
    /\ inv = [t \in Requests \X {"reserve", "release"} |-> IdleCall]
    /\ MAX_INFLIGHT = DEFAULT_MAX_INFLIGHT
    /\ inflight_semaphore = MAX_INFLIGHT
    /\ gw = <<>>
    /\ saga = [r \in Requests |-> IdleSaga]
    /\ reservations = <<>>
    /\ payments = [r \in Requests |-> IdlePay]

SagaNext ==
    \/ \E r \in Requests, e \in ReqEvents, q \in ReqQuantities :
          ClientPost(r, e, q)
    \/ \E r \in Requests : SagaReserve(r)
    \/ \E r \in Requests : SagaInventoryAnswer(r)
    \/ \E r \in Requests : SagaInventoryTimeout(r)
    \/ \E r \in Requests : SagaInventoryUnavailable(r)
    \/ \E r \in Requests : SagaPaymentAnswer(r)
    \/ \E r \in Requests : SagaPaymentTimeout(r)
    \/ \E r \in Requests : SagaPaymentUnavailable(r)
    \/ \E r \in Requests, flap \in BOOLEAN : SaveAttempt(r, flap)
    \/ \E r \in Requests : SagaNotifyAnswer(r)
    \/ \E r \in Requests, result \in {TimedOut, Unavailable} :
          SagaNotifyFailed(r, result)
    \/ \E r \in Requests : SagaReleaseAnswer(r)
    \/ \E r \in Requests : SagaReleaseTimeout(r)
    \/ \E r \in Requests : SagaReleaseUnavailable(r)
    \/ \E r \in Requests : pay(r)
    \/ \E t \in DOMAIN inv : InvReceive(t)
    \/ \E t \in DOMAIN inv : InvEnter(t)
    \/ \E t \in DOMAIN inv : InvReserveCommit(t)
    \/ \E t \in DOMAIN inv : InvReleaseCommit(t)
    \/ \E t \in DOMAIN inv : InvRespond(t)
    \/ \E b \in BOOLEAN : crash(b)
    \/ \E b \in BOOLEAN : chaos_fail(b)
    \/ \E b \in BOOLEAN : toggle_db_flap(b)
    \/ \E b \in BOOLEAN : down(b)

SagaSpec == SagaInit /\ [][SagaNext]_vars

(***************************************************************************)
(* Properties of the ledger.                                               *)
(***************************************************************************)
\* a reserve call that passed the check of line 67 (it answers 200)
Granted(c) == c.op = "reserve" /\ (c.pc = "respond" \/ (c.pc = "done" /\ c.status = 200))

\* a reserve call of quantity 1 on e that was answered, with no release or
\* reset written on e since it was received
AnsweredReserveOfOne(c, e) ==
    /\ c.op = "reserve" /\ c.event_id = e /\ c.quantity = 1
    /\ c.pc = "done" /\ c.status # 503 /\ c.clean

\* C1: no oversell at the ledger. Between two release/reset writes on an event
\* the quantities granted by reserve calls never add up to more than the seats
\* the event had; and when the event had 1 seat and two reserve calls of
\* quantity 1 were the only ones to compete for it, exactly one is answered
\* 200 with remaining 0 and the other 409.
NoOversell ==
    /\ \A e \in AllEvents : reserved[e] <= stock[e]
    /\ \A e \in AllEvents : \A t, u \in DOMAIN inv :
         ( /\ t # u
           /\ stock[e] = 1
           /\ AnsweredReserveOfOne(inv[t], e)
           /\ AnsweredReserveOfOne(inv[u], e)
           /\ \A w \in DOMAIN inv \ {t, u} :
                ~(Granted(inv[w]) /\ inv[w].event_id = e /\ inv[w].clean) )
         => \/ /\ inv[t].status = 200 /\ inv[t].remaining = 0
               /\ inv[u].status = 409
            \/ /\ inv[u].status = 200 /\ inv[u].remaining = 0
               /\ inv[t].status = 409

\* two reserve calls of quantity 1 overlap on an event with 1 seat: one has
\* written the decrement and not answered yet, the other is already inside
\* the critical section and has read 0
RaceForLastSeat ==
    \E e \in AllEvents : \E t, u \in DOMAIN inv :
        /\ t # u /\ stock[e] = 1 /\ reserved[e] = 1
        /\ inv[t].op = "reserve" /\ inv[t].event_id = e /\ inv[t].quantity = 1
        /\ inv[t].clean /\ inv[t].pc = "respond"
        /\ inv[u].op = "reserve" /\ inv[u].event_id = e /\ inv[u].quantity = 1
        /\ inv[u].clean /\ inv[u].pc = "locked" /\ inv[u].available = 0

\* C2: available_seats of every event id of the ledger is >= 0 in every
\* reachable state (calls carry quantity >= 1 and seats >= 0).
SeatsNeverNegative == \A e \in DOMAIN SEATS : SEATS[e] >= 0

\* a reset, a release and a reserve have all completed on one event, the
\* reserve taking every seat that was left
LastSeatsTaken ==
    \E e \in DOMAIN SEATS : \E t, u, w \in DOMAIN inv :
        /\ SEATS[e] = 0
        /\ inv[t].op = "reserve" /\ inv[t].event_id = e /\ inv[t].pc = "done"
        /\ inv[t].status = 200 /\ inv[t].available = inv[t].quantity
        /\ inv[u].op = "release" /\ inv[u].event_id = e /\ inv[u].pc = "done"
        /\ inv[w].op = "reset" /\ inv[w].event_id = e /\ inv[w].pc = "done"

(***************************************************************************)
(* Properties of the admission gate.                                       *)
(***************************************************************************)
Rejected == {r \in DOMAIN gw : gw[r].pc = "done" /\ gw[r].status = 429}
Forwarded == {r \in DOMAIN gw : gw[r].forwarded}

\* C3: admission bound. At most MAX_INFLIGHT requests hold a slot; a request
\* is answered 429 exactly when MAX_INFLIGHT requests held slots as it arrived,
\* and then nothing is sent to the orchestrator for it; when every request has
\* arrived before any admitted one finished, MAX_INFLIGHT of them are forwarded
\* and the others (one of six for the default capacity 5) are answered 429.
AdmissionBound ==
    /\ Cardinality(SlotHolders) <= MAX_INFLIGHT
    /\ inflight_semaphore = MAX_INFLIGHT - Cardinality(SlotHolders)
    /\ \A r \in DOMAIN gw :
         gw[r].pc # "new" => (gw[r].status = 429 <=> gw[r].full)
    /\ \A r \in Rejected :
         /\ gw[r].acquired = 0 /\ ~gw[r].forwarded
         /\ saga[r].pc = "idle"
    /\ ( /\ \A r \in DOMAIN gw : gw[r].pc # "new"
         /\ NoneFinished )
       => /\ Cardinality(Forwarded) = MAX_INFLIGHT
          /\ Cardinality(Rejected) = Cardinality(DOMAIN gw) - MAX_INFLIGHT

\* five requests wait for the orchestrator, which has been sent all five, and
\* the sixth has been answered 429
SixthRejected ==
    /\ \A r \in DOMAIN gw : gw[r].pc # "new"
    /\ NoneFinished
    /\ MAX_INFLIGHT = 5
    /\ Cardinality(Rejected) = 1
    /\ Cardinality({r \in DOMAIN gw : gw[r].pc = "waiting"
                                      /\ saga[r].pc \in {"sent", "done"}}) = 5

(***************************************************************************)
(* Properties of the gateway in front of the orchestrator.                 *)
(***************************************************************************)
\* C4: no slot leak. A request acquires at most one slot, a request that
\* holds one is still in progress, and a request that ended has released the
\* slot it acquired exactly once, whatever the exit path (relayed answer,
\* 504, 503, unparsable body); release never raises; the free capacity is
\* MAX_INFLIGHT less the slots held, hence MAX_INFLIGHT when no request is in
\* progress.
NoSlotLeak ==
    /\ \A r \in DOMAIN gw :
         /\ gw[r].acquired <= 1
         /\ gw[r].released <= gw[r].acquired
         /\ gw[r].pc = "waiting" => gw[r].acquired = 1 /\ gw[r].released = 0
         /\ gw[r].pc = "done" => gw[r].released = gw[r].acquired
         /\ gw[r].pc = "done" => (gw[r].acquired = 0 <=> gw[r].status = 429)
         /\ gw[r].status # 500
    /\ inflight_semaphore = MAX_INFLIGHT - Cardinality(SlotHolders)
    /\ (\A r \in DOMAIN gw : gw[r].pc \in {"new", "done"})
         => inflight_semaphore = MAX_INFLIGHT

\* one request ended by the gateway's timeout and another by an unparsable
\* body; both released their slot and the gate is full again
SlotsBackAfterFailures ==
    /\ \E r, o \in DOMAIN gw :
         /\ gw[r].pc = "done" /\ gw[r].status = 504 /\ gw[r].released = 1
         /\ gw[o].pc = "done" /\ gw[o].status = 400 /\ gw[o].released = 1
    /\ inflight_semaphore = MAX_INFLIGHT

\* the sagas the orchestrator has started and not finished
InProgress ==
    {r \in DOMAIN saga :
       saga[r].pc \in {"inventory", "payment", "persist", "notify", "release"}}

\* C5 as stated: the orchestrator never works on more than MAX_INFLIGHT
\* requests of the gateway at a time.
GateBoundsSagas == Cardinality(InProgress) <= MAX_INFLIGHT

\* C5, amended: the gate bounds the sagas whose request still holds its slot;
\* every other saga in progress belongs to a request the gateway gave up on
\* with 504, and those are not bounded by the gate.
GateBoundsWaitedSagas ==
    /\ Cardinality({r \in InProgress : gw[r].pc = "waiting"}) <= MAX_INFLIGHT
    /\ \A r \in InProgress :
         \/ gw[r].pc = "waiting" /\ gw[r].acquired > gw[r].released
         \/ gw[r].pc = "done" /\ gw[r].status = 504

\* the gateway gave up on a request whose saga is still running, and the
\* slot it released let in another request whose saga runs too
AbandonedSagaStillRuns ==
    \E r, o \in InProgress :
        /\ r # o
        /\ gw[r].pc = "done" /\ gw[r].status = 504
        /\ gw[o].pc = "waiting"
        /\ Cardinality(InProgress) > MAX_INFLIGHT

(***************************************************************************)
(* Properties of the saga.                                                 *)
(***************************************************************************)
\* the four steps of the saga, in the order of the code
Steps == <<"inventory", "payment", "persist", "notify">>
IsStep(call) == call # "release"

\* the record of request r is in the store
Stored(r) == \E i \in DOMAIN reservations : reservations[i].user_id = r

\* the /release call of request r has written the ledger
Released(c) == c.op = "release" /\ c.pc \in {"respond", "done"}

\* the seats of event e that request r holds: taken by its reserve call and
\* not given back by its release call
Net(r, e) ==
    (IF Granted(inv[ReserveCall(r)]) /\ inv[ReserveCall(r)].event_id = e
     THEN inv[ReserveCall(r)].quantity ELSE 0)
    - (IF Released(inv[ReleaseCall(r)]) /\ inv[ReleaseCall(r)].event_id = e
       THEN inv[ReleaseCall(r)].quantity ELSE 0)

RECURSIVE SumNet(_, _)
SumNet(rs, e) ==
    IF rs = {} THEN 0
    ELSE LET r == CHOOSE x \in rs : TRUE
         IN  Net(r, e) + SumNet(rs \ {r}, e)

\* the count of every event is its initial count less the seats the requests
\* hold
LedgerAccounts ==
    \A e \in AllEvents :
        Get(SEATS, e, 0) = Get(InitialSeats, e, 0) - SumNet(DOMAIN saga, e)

\* C6: saga ordering. The calls a saga has issued, compensation apart, are a
\* prefix of inventory, payment, persist, notify; the payment call is issued
\* only when the inventory call has returned a success status, the persist
\* step starts only when the payment call has returned a success status, the
\* notify call is issued only when the record is in the store; the step in
\* progress is the last one issued.
SagaOrdering ==
    \A r \in DOMAIN saga :
        LET sg == saga[r]
            calls == SelectSeq(sg.log, IsStep)
        IN  /\ calls = SubSeq(Steps, 1, Len(calls))
            /\ Len(calls) >= 2 =>
                 /\ sg.inventory_response.kind = "response"
                 /\ sg.inventory_response.status < 400
                 /\ inv[ReserveCall(r)].pc = "done"
                 /\ inv[ReserveCall(r)].status = sg.inventory_response.status
            /\ Len(calls) >= 3 =>
                 /\ sg.payment_response.kind = "response"
                 /\ sg.payment_response.status < 400
                 /\ payments[r].pc = "done"
                 /\ payments[r].status = sg.payment_response.status
            /\ Len(calls) >= 4 => sg.saved /\ Stored(r)
            /\ sg.pc \in {"inventory", "payment", "persist", "notify"} =>
                 /\ sg.log = calls
                 /\ sg.pc = calls[Len(calls)]
            /\ sg.pc = "inventory" => sg.inventory_response = NoResult
            /\ sg.pc \in {"inventory", "payment"} =>
                 sg.payment_response = NoResult
            /\ sg.pc \in {"inventory", "payment", "persist"} =>
                 ~sg.saved /\ ~Stored(r)

\* a saga ran its four steps and answered 200
AllFourStepsRan ==
    \E r \in DOMAIN saga :
        /\ saga[r].pc = "done" /\ saga[r].status = 200
        /\ saga[r].log = Steps
        /\ Stored(r)

\* the inventory call of the saga failed: error status, timeout or transport
InventoryFailed(sg) ==
    \/ sg.inventory_response.kind \in {"timeout", "unavailable"}
    \/ /\ sg.inventory_response.kind = "response"
       /\ sg.inventory_response.status >= 400

\* what the orchestrator does when its inventory call failed: it answers at
\* once, relaying the inventory's status and body or 503, and has issued no
\* other call
FailFastAnswer(r) ==
    /\ saga[r].pc = "done"
    /\ saga[r].log = <<"inventory">>
    /\ IF saga[r].inventory_response.kind = "response"
       THEN /\ saga[r].status = saga[r].inventory_response.status
            /\ saga[r].body = "inventory"
       ELSE /\ saga[r].status = 503
            /\ saga[r].body = "reservations"
    /\ payments[r].pc = "idle"
    /\ inv[ReleaseCall(r)].pc = "idle"
    /\ ~saga[r].saved /\ ~Stored(r) /\ saga[r].attempt = 0

\* C7 as stated: after a failed inventory call the orchestrator answers at
\* once without any other call, and the request holds no seat of the ledger.
FailFastNothingCommitted ==
    \A r \in DOMAIN saga :
        InventoryFailed(saga[r]) =>
            /\ FailFastAnswer(r)
            /\ Net(r, saga[r].event_id) = 0

\* the payment service answered the saga with an error status
PaymentRejected(sg) ==
    /\ sg.payment_response.kind = "response"
    /\ sg.payment_response.status >= 400

\* the compensating path of the saga of r: one /release call with the event
\* and the quantity of the request, no record, no notification
Compensates(r) ==
    /\ saga[r].pc \in {"release", "done"}
    /\ inv[ReserveCall(r)].pc = "done" /\ inv[ReserveCall(r)].status = 200
    /\ inv[ReleaseCall(r)].pc # "idle"
    /\ inv[ReleaseCall(r)].op = "release"
    /\ inv[ReleaseCall(r)].event_id = inv[ReserveCall(r)].event_id
    /\ inv[ReleaseCall(r)].quantity = inv[ReserveCall(r)].quantity
    /\ inv[ReleaseCall(r)].event_id = saga[r].event_id
    /\ inv[ReleaseCall(r)].quantity = saga[r].quantity
    /\ ~saga[r].saved /\ ~saga[r].notified /\ ~Stored(r)

PaymentTimeoutCompensates ==
    \A r \in DOMAIN saga :
        saga[r].payment_response.kind = "timeout" =>
            /\ Compensates(r)
            /\ saga[r].log = <<"inventory", "payment", "release">>
            /\ saga[r].status = 504
            /\ saga[r].body = "reservations"
            /\ saga[r].attempt = 0
            /\ \A o \in DOMAIN saga :
                 PaymentRejected(saga[o]) => saga[o].status # saga[r].status

\* a saga answered 504 for a payment the service approved after all, while
\* the payment of another saga was rejected
ChargedAfterTimeout ==
    \E r, o \in DOMAIN saga :
        /\ saga[r].payment_response.kind = "timeout"
        /\ saga[r].pc = "done"
        /\ payments[r].pc = "done" /\ payments[r].status = 200
        /\ PaymentRejected(saga[o]) /\ saga[o].pc = "done"

\* C10: a payment call that failed at transport level takes the compensating
\* path of the timeout (one /release call, no record, no notification) and
\* the saga answers 503.
PaymentUnavailableCompensates ==
    \A r \in DOMAIN saga :
        saga[r].payment_response.kind = "unavailable" =>
            /\ Compensates(r)
            /\ saga[r].log = <<"inventory", "payment", "release">>
            /\ saga[r].status = 503
            /\ saga[r].body = "reservations"
            /\ saga[r].attempt = 0

\* a saga whose payment call never reached the service ended with 503 and
\* its seats given back
UnavailablePaymentCompensated ==
    \E r \in DOMAIN saga :
        /\ saga[r].payment_response.kind = "unavailable"
        /\ payments[r].pc = "lost"
        /\ saga[r].pc = "done" /\ saga[r].status = 503
        /\ inv[ReleaseCall(r)].pc = "done"
        /\ Net(r, saga[r].event_id) = 0

\* every attempt of the save of the saga failed
SaveExhausted(sg) == sg.attempt >= retries /\ ~sg.saved

\* what the orchestrator does when the save is exhausted: inventory and
\* payment had succeeded, one /release call is posted, the answer is 503
ExhaustionAnswer(r) ==
    /\ Compensates(r)
    /\ saga[r].inventory_response = Response(200)
    /\ saga[r].payment_response = Response(200)
    /\ saga[r].log = <<"inventory", "payment", "persist", "release">>
    /\ saga[r].status = 503
    /\ saga[r].body = "reservations"

RowsOf(r) == {i \in DOMAIN reservations : reservations[i].user_id = r}

\* C12: notification independence. A saga whose record was saved issues no
\* /release call and ends with 200 whatever the result of the notification
\* (answer, error status, timeout, transport failure); notification.sent is
\* true exactly for an answer below 400; whatever that result, the request
\* holds its seats in the ledger and has its one record in the store.
NotificationIndependence ==
    /\ LedgerAccounts
    /\ \A r \in DOMAIN saga :
         saga[r].saved =>
            /\ saga[r].pc \in {"notify", "done"}
            /\ saga[r].log = Steps
            /\ inv[ReleaseCall(r)].pc = "idle"
            /\ saga[r].release_response = NoResult
            /\ saga[r].pc = "notify" =>
                 saga[r].notification_response = NoResult
            /\ saga[r].pc = "done" =>
                 /\ saga[r].status = 200
                 /\ saga[r].body = "reservations"
                 /\ saga[r].notification_response # NoResult
                 /\ saga[r].notified <=>
                      /\ saga[r].notification_response.kind = "response"
                      /\ saga[r].notification_response.status < 400
            /\ Net(r, saga[r].event_id) = saga[r].quantity
            /\ Cardinality(RowsOf(r)) = 1
            /\ \A i \in RowsOf(r) :
                 /\ reservations[i].event_id = saga[r].event_id
                 /\ reservations[i].quantity = saga[r].quantity

\* a saga ended with 200 and notification.sent = false after the
\* notification service answered 503; its seats and its record are in place
ConfirmedWithoutNotification ==
    \E r \in DOMAIN saga :
        /\ saga[r].pc = "done" /\ saga[r].status = 200
        /\ saga[r].notification_response = Response(503)
        /\ ~saga[r].notified
        /\ Stored(r)
        /\ Net(r, saga[r].event_id) = saga[r].quantity

\* the number of times call occurs in log
Count(log, call) == Cardinality({i \in DOMAIN log : log[i] = call})

\* the sagas on a compensating path
Compensating(sg) == Count(sg.log, "release") > 0

\* the status a compensating saga answers with: it depends on the failure
\* that started the compensation alone
StatusOfFailure(sg) ==
    IF PaymentRejected(sg) THEN sg.payment_response.status
    ELSE IF sg.payment_response.kind = "timeout" THEN 504
    ELSE 503

\* C13: compensation is fire-and-forget. A compensating saga has posted
\* /release exactly once, as its last call, and the status and body of its
\* answer are those the failure decided, before the result of /release is
\* known and after it, whatever that result is.
FireAndForget ==
    \A r \in DOMAIN saga :
        Compensating(saga[r]) =>
            /\ Count(saga[r].log, "release") = 1
            /\ saga[r].log[Len(saga[r].log)] = "release"
            /\ inv[ReleaseCall(r)].pc # "idle"
            /\ saga[r].pc \in {"release", "done"}
            /\ saga[r].pc = "release" <=> saga[r].release_response = NoResult
            /\ \/ PaymentRejected(saga[r])
               \/ saga[r].payment_response.kind \in {"timeout", "unavailable"}
               \/ SaveExhausted(saga[r])
            /\ saga[r].status = StatusOfFailure(saga[r])
            /\ saga[r].body =
                 IF PaymentRejected(saga[r]) THEN "payments" ELSE "reservations"

\* two sagas failed the same way; /release was answered for one and timed
\* out for the other, and both gave the same answer
SameAnswerWhateverRelease ==
    \E r, o \in DOMAIN saga :
        /\ saga[r].pc = "done" /\ saga[o].pc = "done"
        /\ PaymentRejected(saga[r]) /\ PaymentRejected(saga[o])
        /\ saga[r].release_response = Response(200)
        /\ saga[o].release_response = TimedOut
        /\ saga[r].status = saga[o].status
        /\ saga[r].body = saga[o].body

\* the inventory threads of request r are at rest: nothing of r is still to
\* be written to the ledger
AtRest(r) ==
    /\ inv[ReserveCall(r)].pc \in {"idle", "lost", "done"}
    /\ inv[ReleaseCall(r)].pc \in {"idle", "lost", "done"}

\* C14 as stated (docstring of reserve, lines 169-172): once a request has
\* finished and its inventory calls are at rest, it holds seats of the
\* ledger only if its record is in the store.
NoSeatWithoutRecord ==
    \A r \in DOMAIN saga :
        (saga[r].pc = "done" /\ AtRest(r)) =>
            (Net(r, saga[r].event_id) > 0 => Stored(r))

\* every record of the store belongs to a saga whose inventory and payment
\* calls returned a success status, and carries the payload of that saga
RecordsArePaid ==
    \A i \in DOMAIN reservations :
        LET r == reservations[i].user_id
        IN  /\ r \in DOMAIN saga
            /\ saga[r].inventory_response.kind = "response"
            /\ saga[r].inventory_response.status < 400
            /\ saga[r].payment_response.kind = "response"
            /\ saga[r].payment_response.status < 400
            /\ reservations[i].id = i
            /\ reservations[i].event_id = saga[r].event_id
            /\ reservations[i].quantity = saga[r].quantity

\* no step deletes or changes a record: the store before the step is a
\* prefix of the store after it
RecordsKept ==
    /\ Len(reservations') >= Len(reservations)
    /\ SubSeq(reservations', 1, Len(reservations)) = reservations

\* C15: a record is in the store only for a request whose inventory and
\* payment calls both returned a success status, and the set of records only
\* grows: no step of the system, compensation included, deletes or changes a
\* record.
RecordsOnlyAfterPayment == []RecordsArePaid /\ [][RecordsKept]_vars

\* the record of one request is in the store after the compensation of
\* another request has run to its end
RecordOutlivesCompensation ==
    \E r, o \in DOMAIN saga :
        /\ Stored(r) /\ saga[r].pc = "done"
        /\ Compensating(saga[o]) /\ saga[o].pc = "done"
        /\ inv[ReleaseCall(o)].pc = "done"

(***************************************************************************)
(* Properties of the operations of the ledger.                             *)
(***************************************************************************)
\* the step in which call t of operation op leaves its critical section
\* with a write
Writes(t, op) ==
    /\ inv[t].pc = "locked" /\ inv[t].op = op
    /\ inv'[t].pc = "respond"

\* the step leaves every entry of the ledger but that of e as it is
OthersKept(e) ==
    /\ DOMAIN SEATS' = DOMAIN SEATS \cup {e}
    /\ \A k \in DOMAIN SEATS \ {e} : SEATS'[k] = SEATS[k]

\* what a reset step does: the count of its event is the seats of the call
\* whatever the ledger held, and a reset that finds that count changes
\* nothing
ResetStep ==
    \A t \in DOMAIN inv :
        Writes(t, "reset") =>
            /\ SEATS'[inv[t].event_id] = inv[t].seats
            /\ OthersKept(inv[t].event_id)
            /\ Get(SEATS, inv[t].event_id, -1) = inv[t].seats => SEATS' = SEATS

\* C16: reset idempotence. As a reset(event_id, seats = S) call leaves its
\* critical section the count of the event is exactly S, whatever calls came
\* before, and a reset with the S the event already has leaves the ledger as
\* it is.
ResetIdempotent == [][ResetStep]_vars

\* two reset calls with the same event and seats were written after a
\* reserve call on that event was received; the count is their S
ResetTwice ==
    \E t, u, w \in DOMAIN inv :
        /\ t # u
        /\ inv[t].op = "reset" /\ inv[u].op = "reset"
        /\ inv[t].pc = "done" /\ inv[u].pc = "done"
        /\ inv[t].event_id = inv[u].event_id
        /\ inv[t].seats = inv[u].seats
        /\ Granted(inv[w]) /\ inv[w].event_id = inv[t].event_id
        /\ ~inv[w].clean
        /\ SEATS[inv[t].event_id] = inv[t].seats
        /\ inv[t].seats # InitialSeats[inv[t].event_id] - inv[w].quantity

\* the thread inside the critical section is alone there, and the count it
\* read is still the count of its event: nothing was written since its read
ReadStillCurrent ==
    \A t \in DOMAIN inv :
        inv[t].pc = "locked" =>
            /\ lock = {t}
            /\ inv[t].available = Get(SEATS, inv[t].event_id, 0)

\* what a reserve step does as it leaves the critical section: 409 with the
\* ledger as it was when fewer seats than asked are there, the decrement of
\* the count otherwise
ReserveStep ==
    \A t \in DOMAIN inv :
        (inv[t].pc = "locked" /\ inv[t].op = "reserve"
         /\ inv'[t].pc # "locked") =>
            IF Get(SEATS, inv[t].event_id, 0) < inv[t].quantity
            THEN /\ inv'[t].pc = "done" /\ inv'[t].status = 409
                 /\ SEATS' = SEATS
            ELSE /\ inv'[t].pc = "respond"
                 /\ SEATS'[inv[t].event_id] =
                      SEATS[inv[t].event_id] - inv[t].quantity
                 /\ OthersKept(inv[t].event_id)

\* C17: a reserve call that finds fewer seats than it asks for (none for an
\* unknown event) answers 409 and leaves every entry of the ledger as it is,
\* creating none; the read, the comparison and the decrement of a reserve
\* are one atomic step for every other reserve, release and reset.
ConflictLeavesLedger == []ReadStillCurrent /\ [][ReserveStep]_vars

\* a reserve call on an event the ledger does not know was answered 409 and
\* the ledger still does not know the event
UnknownEventConflict ==
    \E t \in DOMAIN inv :
        /\ inv[t].op = "reserve" /\ inv[t].pc = "done" /\ inv[t].status = 409
        /\ inv[t].event_id \notin DOMAIN InitialSeats
        /\ inv[t].event_id \notin DOMAIN SEATS

\* what a release step does: the count of its event, 0 for an event the
\* ledger does not know, goes up by the quantity of the call
ReleaseStep ==
    \A t \in DOMAIN inv :
        (inv[t].pc = "locked" /\ inv[t].op = "release"
         /\ inv'[t].pc # "locked") =>
            /\ inv'[t].pc = "respond"
            /\ SEATS'[inv[t].event_id] =
                 Get(SEATS, inv[t].event_id, 0) + inv[t].quantity
            /\ OthersKept(inv[t].event_id)

\* a release call is never refused: it is waiting for the lock, inside the
\* critical section, about to answer, or answered with 200
ReleaseNeverFails ==
    \A t \in DOMAIN inv :
        inv[t].op = "release" =>
            /\ inv[t].pc \in {"sent", "lost", "acquire", "locked", "respond",
                              "done"}
            /\ inv[t].pc = "done" => inv[t].status = 200
            /\ inv[t].pc # "done" => inv[t].status = 0

\* C18: release always succeeds and adds exactly its quantity: no check and
\* no upper bound, an event the ledger does not know is created with
\* 0 + quantity, and the answer is 200 in every case.
ReleaseAddsQuantity == []ReleaseNeverFails /\ [][ReleaseStep]_vars

\* releases were answered 200 that took a known event above its initial
\* count and created an unknown event with the quantity released
ReleasedBeyondInitial ==
    \E t, u \in DOMAIN inv :
        /\ inv[t].op = "release" /\ inv[t].pc = "done" /\ inv[t].status = 200
        /\ inv[t].event_id \in DOMAIN InitialSeats
        /\ SEATS[inv[t].event_id] > InitialSeats[inv[t].event_id]
        /\ inv[u].op = "release" /\ inv[u].pc = "done" /\ inv[u].status = 200
        /\ inv[u].event_id \notin DOMAIN InitialSeats
        /\ inv[u].event_id \in DOMAIN SEATS
        /\ SEATS[inv[u].event_id] = inv[u].quantity

\* a reserve call refused for the crash flag is over at once: it never held
\* the lock and read nothing of the ledger
RefusedAtOnce ==
    \A t \in DOMAIN inv :
        (inv[t].op = "reserve" /\ inv[t].status = 503) =>
            /\ inv[t].pc = "done"
            /\ t \notin lock
            /\ inv[t].available = 0 /\ inv[t].remaining = 0

\* the step in which the service receives a reserve call: 503 with the lock
\* and the ledger untouched while the flag is set, the usual wait for the
\* lock otherwise; and a step that changes the flag changes nothing else
CrashStep ==
    /\ \A t \in DOMAIN inv :
         (inv[t].pc \in {"idle", "sent"} /\ inv'[t].op = "reserve"
          /\ inv'[t].pc \notin {"idle", "sent", "lost"}) =>
            IF CHAOS_FLAGS.crash
            THEN /\ inv'[t].pc = "done" /\ inv'[t].status = 503
                 /\ UNCHANGED <<SEATS, lock>>
            ELSE /\ inv'[t].pc = "acquire" /\ inv'[t].status = 0
                 /\ UNCHANGED <<SEATS, lock>>
    /\ CHAOS_FLAGS' # CHAOS_FLAGS => UNCHANGED <<SEATS, lock, inv>>

\* C19: while the crash flag is set every reserve call that arrives answers
\* 503 without taking the lock and without reading or changing the ledger;
\* with the flag cleared a reserve call runs as usual on the ledger the
\* outage left as it was.
OutageRefusesReserve == []RefusedAtOnce /\ [][CrashStep]_vars

\* a reserve call was refused with 503, the flag is cleared, and another
\* reserve call found the initial count of the event and took its seats
ReserveAfterOutage ==
    \E t, u \in DOMAIN inv :
        /\ inv[t].op = "reserve" /\ inv[t].pc = "done" /\ inv[t].status = 503
        /\ ~CHAOS_FLAGS.crash
        /\ inv[u].op = "reserve" /\ inv[u].pc = "done" /\ inv[u].status = 200
        /\ inv[u].event_id = inv[t].event_id
        /\ inv[u].available = InitialSeats[inv[u].event_id]
        /\ inv[u].remaining = inv[u].available - inv[u].quantity

\* the attempts of every save are counted within the configured number; the
\* loop is left at the first attempt that succeeds (every attempt before it
\* failed) or after the last one, with the error of that last attempt
AttemptsBounded ==
    \A r \in DOMAIN saga :
        /\ saga[r].attempt \in 0..retries
        /\ saga[r].last_error \in 0..saga[r].attempt
        /\ saga[r].attempt > 0 =>
             saga[r].pc \in {"persist", "notify", "release", "done"}
        /\ saga[r].pc = "persist" =>
             /\ saga[r].attempt < retries
             /\ saga[r].last_error = saga[r].attempt
             /\ ~saga[r].saved
        /\ saga[r].saved =>
             /\ saga[r].attempt >= 1
             /\ saga[r].last_error = saga[r].attempt - 1
             /\ Cardinality(RowsOf(r)) = 1
        /\ (saga[r].attempt > 0 /\ saga[r].pc # "persist" /\ ~saga[r].saved) =>
             /\ saga[r].attempt = retries
             /\ saga[r].last_error = retries
             /\ RowsOf(r) = {}

\* an attempt is made only by a save that has neither succeeded nor used up
\* its attempts, one at a time
AttemptStep ==
    \A r \in DOMAIN saga :
        saga'[r].attempt # saga[r].attempt =>
            /\ saga[r].pc = "persist" /\ ~saga[r].saved
            /\ saga[r].attempt < retries
            /\ saga'[r].attempt = saga[r].attempt + 1

\* C20: bounded retry of the store. One save makes at most retries = 3
\* attempts, none after the first that succeeds, and when all of them fail
\* it returns failure with the error of the last attempt.
BoundedRetry == []AttemptsBounded /\ [][AttemptStep]_vars

\* one save succeeded at its third attempt, another failed three times
ThirdAttemptDecides ==
    \E r, o \in DOMAIN saga :
        /\ saga[r].saved /\ saga[r].attempt = retries
        /\ saga[r].last_error = retries - 1
        /\ SaveExhausted(saga[o]) /\ saga[o].last_error = retries
        /\ saga[o].pc = "done"

\* the count call c wrote to the ledger inside its critical section
Wrote(c) ==
    IF c.op = "reserve" THEN c.available - c.quantity
    ELSE IF c.op = "release" THEN c.available + c.quantity
    ELSE c.seats

\* C21 as stated: the remaining of the answer of a reserve, release or reset
\* call is the count that call wrote, whatever the other calls on the event
\* do.
RemainingIsOwnWrite ==
    \A t \in DOMAIN inv :
        (inv[t].pc = "done" /\ inv[t].status = 200) =>
            inv[t].remaining = Wrote(inv[t])

\* the save of saga sg returned (False, last_error)
SaveReturnedFailure(sg) ==
    sg.attempt > 0 /\ sg.pc # "persist" /\ ~sg.saved

\* the store holds one record for each save that returned ok and nothing else
OneRecordPerSave ==
    /\ Len(reservations) = Cardinality({r \in DOMAIN saga : saga[r].saved})
    /\ \A r \in DOMAIN saga :
         /\ saga[r].saved => Cardinality(RowsOf(r)) = 1
         /\ ~saga[r].saved => RowsOf(r) = {}
         /\ SaveReturnedFailure(saga[r]) => saga[r].last_error = saga[r].attempt

\* the table changes only by the one row of the attempt that succeeds; an
\* attempt that fails leaves it as it was
InsertStep ==
    /\ reservations' # reservations =>
         /\ Len(reservations') = Len(reservations) + 1
         /\ SubSeq(reservations', 1, Len(reservations)) = reservations
         /\ \E r \in DOMAIN saga :
              /\ ~saga[r].saved /\ saga'[r].saved
              /\ reservations'[Len(reservations')].user_id = r
              /\ \A o \in DOMAIN saga \ {r} : saga'[o].saved = saga[o].saved
    /\ \A r \in DOMAIN saga :
         (saga'[r].attempt # saga[r].attempt /\ ~saga'[r].saved) =>
             reservations' = reservations

\* C22: one save call writes at most one record. An attempt that fails by the
\* flapping fault leaves the table untouched, a save that returned ok has
\* inserted exactly one record and a save that returned failure none,
\* whatever the number of attempts.
OneSaveOneRecord == []OneRecordPerSave /\ [][InsertStep]_vars

\* one save succeeded at its second attempt and left one record, another
\* failed at every attempt and left none
SecondAttemptInserted ==
    \E r, o \in DOMAIN saga :
        /\ saga[r].saved /\ saga[r].attempt = 2 /\ saga[r].last_error = 1
        /\ Cardinality(RowsOf(r)) = 1
        /\ SaveReturnedFailure(saga[o]) /\ saga[o].attempt = retries
        /\ RowsOf(o) = {}
        /\ Len(reservations) = 1

\* the seats of event e in the first n records of the store
RECURSIVE Persisted(_, _)
Persisted(n, e) ==
    IF n = 0 THEN 0
    ELSE (IF reservations[n].event_id = e THEN reservations[n].quantity ELSE 0)
         + Persisted(n - 1, e)

\* C23: system-level no oversell. With concurrent requests and any mix of
\* payment, store, notification and release failures, and no reset or direct
\* release call, the quantities of the persisted reservations of an event
\* plus its available seats never exceed its initial seat count.
SystemNoOversell ==
    \A e \in AllEvents :
        Persisted(Len(reservations), e) + Get(SEATS, e, 0)
            <= Get(InitialSeats, e, 0)

\* one request is confirmed with its record, the other was refused the seats
\* that are left, and the seats sold and the seats left add up to the
\* initial count
SoldAndLeftAddUp ==
    \E r, o \in DOMAIN saga : \E e \in DOMAIN InitialSeats :
        /\ saga[r].pc = "done" /\ saga[r].status = 200 /\ saga[r].event_id = e
        /\ saga[o].pc = "done" /\ saga[o].status = 409 /\ saga[o].event_id = e
        /\ Persisted(Len(reservations), e) = saga[r].quantity
        /\ Persisted(Len(reservations), e) + SEATS[e] = InitialSeats[e]

\* request r has posted its /release call
ReleasePosted(r) == inv[ReleaseCall(r)].pc # "idle"

\* a /release call was posted only by a request whose own /reserve call was
\* answered with success, for the event and the quantity of that call, and
\* by no request that is confirmed; no count is above its initial value
ReleaseOnlyOwnSeats ==
    /\ \A r \in DOMAIN saga :
         /\ ReleasePosted(r) =>
              /\ saga[r].inventory_response.kind = "response"
              /\ saga[r].inventory_response.status < 400
              /\ inv[ReserveCall(r)].pc = "done"
              /\ inv[ReserveCall(r)].status = 200
              /\ inv[ReleaseCall(r)].op = "release"
              /\ inv[ReleaseCall(r)].event_id = inv[ReserveCall(r)].event_id
              /\ inv[ReleaseCall(r)].quantity = inv[ReserveCall(r)].quantity
              /\ Count(saga[r].log, "release") = 1
              /\ ~saga[r].saved
              /\ saga[r].pc \in {"release", "done"}
              /\ saga[r].status >= 400
         /\ (saga[r].pc = "done" /\ saga[r].status = 200) => ~ReleasePosted(r)
    /\ \A e \in AllEvents : Get(SEATS, e, 0) <= Get(InitialSeats, e, 0)

\* a request posts /release when it leaves the payment or the persist step
\* for the release step, and never posts it again
ReleasePostStep ==
    \A r \in DOMAIN saga :
        /\ (~ReleasePosted(r) /\ inv'[ReleaseCall(r)].pc # "idle") =>
             /\ saga[r].pc \in {"payment", "persist"}
             /\ saga'[r].pc = "release"
             /\ inv'[ReleaseCall(r)].pc = "sent"
        /\ ReleasePosted(r) =>
             /\ inv'[ReleaseCall(r)].pc \notin {"idle", "sent"}
                  \/ inv'[ReleaseCall(r)] = inv[ReleaseCall(r)]
             /\ inv'[ReleaseCall(r)].quantity = inv[ReleaseCall(r)].quantity

\* C24: no over-release. The orchestrator posts /release only for a request
\* whose own inventory reserve returned a success status, at most once per
\* request and never for a request that ends with 200; with no reset and no
\* direct release call no count of an event exceeds its initial value.
NoOverRelease == []ReleaseOnlyOwnSeats /\ [][ReleasePostStep]_vars

\* both requests were granted seats in turn and gave them back, one after a
\* rejected payment and one after a failed save, and every seat is back with
\* none in excess
BothGaveBack ==
    \E r, o \in DOMAIN saga :
        /\ r # o
        /\ saga[r].pc = "done" /\ saga[r].status = 502
        /\ saga[o].pc = "done" /\ saga[o].status = 503
        /\ saga[o].attempt = retries
        /\ inv[ReleaseCall(r)].pc = "done" /\ inv[ReleaseCall(r)].status = 200
        /\ inv[ReleaseCall(o)].pc = "done" /\ inv[ReleaseCall(o)].status = 200
        /\ SEATS = InitialSeats

\* no release or reset call is ever refused: it is on its way to the lock, in
\* it, or answered 200
OutageSparesLedgerCalls ==
    \A t \in DOMAIN inv :
        inv[t].op \in {"release", "reset"} =>
            /\ inv[t].status \in {0, 200}
            /\ inv[t].pc = "done" <=> inv[t].status = 200
            /\ inv[t].outage => inv[t].pc = "respond"

\* with the crash flag set a release or reset call that arrives goes on to
\* the lock, enters it when it is free, writes the count it would write
\* without the flag and answers 200; a step that changes the flag changes
\* neither the ledger nor the lock nor any call
OutageStep ==
    /\ \A t \in DOMAIN inv :
         CHAOS_FLAGS.crash =>
           /\ (inv[t].pc \in {"idle", "sent"}
               /\ inv'[t].op \in {"release", "reset"}
               /\ inv'[t].pc \notin {"idle", "sent", "lost"}) =>
                  inv'[t].pc = "acquire" /\ inv'[t].status = 0
           /\ (inv[t].op \in {"release", "reset"} /\ inv[t].pc = "locked"
               /\ inv'[t].pc # "locked") =>
                  /\ inv'[t].pc = "respond" /\ inv'[t].outage
                  /\ SEATS'[inv[t].event_id] =
                       IF inv[t].op = "release"
                       THEN Get(SEATS, inv[t].event_id, 0) + inv[t].quantity
                       ELSE inv[t].seats
           /\ (inv[t].op \in {"release", "reset"} /\ inv[t].pc = "respond"
               /\ inv'[t].pc # "respond") =>
                  inv'[t].pc = "done" /\ inv'[t].status = 200
    /\ CHAOS_FLAGS'.crash # CHAOS_FLAGS.crash =>
         /\ SEATS' = SEATS /\ lock' = lock /\ inv' = inv
         /\ stock' = stock /\ reserved' = reserved

\* C25: the crash flag affects only reserve. While it is set release and
\* reset are received, take the lock, change the ledger as usual and answer
\* 200, so seats given back during the outage are back in the ledger;
\* setting or clearing the flag changes no ledger entry.
CrashAffectsOnlyReserve == []OutageSparesLedgerCalls /\ [][OutageStep]_vars

\* during the outage a reserve call was refused with 503, a reset call wrote
\* its count and a release call gave seats back: both wrote with the flag
\* set, the count of the release's event is the count it found plus its
\* quantity
RestoredDuringOutage ==
    \E t, u, w \in DOMAIN inv :
        /\ CHAOS_FLAGS.crash
        /\ inv[t].op = "reserve" /\ inv[t].pc = "done" /\ inv[t].status = 503
        /\ inv[u].op = "release" /\ inv[u].pc = "respond" /\ inv[u].outage
        /\ inv[u].event_id = inv[t].event_id
        /\ SEATS[inv[u].event_id] = inv[u].available + inv[u].quantity
        /\ inv[w].op = "reset" /\ inv[w].pc = "respond" /\ inv[w].outage
        /\ inv[w].event_id # inv[u].event_id
        /\ SEATS[inv[w].event_id] = inv[w].seats

\* the free capacity stays within 0..MAX_INFLIGHT, and a request answered 429
\* found every slot held, holds none and has released none
GateCountInRange ==
    /\ inflight_semaphore \in 0..MAX_INFLIGHT
    /\ \A r \in Rejected :
         /\ gw[r].full
         /\ gw[r].acquired = 0 /\ gw[r].released = 0

\* the step that answers 429 is taken with MAX_INFLIGHT slots held by other
\* requests and leaves the count as it is; a rejected request does nothing
\* more; the count goes up by one only, for a request that held a slot
GateStep ==
    /\ \A r \in DOMAIN gw :
         /\ (gw[r].pc = "new" /\ gw'[r].status = 429) =>
              /\ Cardinality(SlotHolders \ {r}) = MAX_INFLIGHT
              /\ inflight_semaphore = 0
              /\ inflight_semaphore' = inflight_semaphore
              /\ \A o \in DOMAIN gw \ {r} : gw'[o] = gw[o]
         /\ r \in Rejected => gw'[r] = gw[r]
    /\ inflight_semaphore' > inflight_semaphore =>
         /\ inflight_semaphore' = inflight_semaphore + 1
         /\ \E r \in SlotHolders :
              /\ gw'[r].released = gw[r].released + 1
              /\ \A o \in DOMAIN gw \ {r} : gw'[o].released = gw[o].released

\* C27: no spurious rejection and no over-release at the gate. A request is
\* answered 429 only when, at its non-blocking acquire, MAX_INFLIGHT slots
\* are held by other requests; a rejected request never releases a slot and
\* leaves the count unchanged; the free capacity never exceeds MAX_INFLIGHT
\* under any interleaving of acquires and releases.
NoSpuriousRejection == []GateCountInRange /\ [][GateStep]_vars

\* one request was rejected while the others held every slot; they have all
\* ended since, each releasing its slot, and the count is MAX_INFLIGHT again
RejectedThenAllReleased ==
    /\ \A r \in DOMAIN gw : gw[r].pc = "done"
    /\ Cardinality(Rejected) = 1
    /\ \A r \in DOMAIN gw \ Rejected :
         gw[r].acquired = 1 /\ gw[r].released = 1
    /\ \E r \in DOMAIN gw : gw[r].status = 504
    /\ inflight_semaphore = MAX_INFLIGHT

(***************************************************************************)
(* The ledger lock under fair scheduling.  The calls of LedgerSpec, each   *)
(* for MaxQuantity seats or a reset to MaxSeats, on a known and on an     *)
(* unknown event.  Every handler thread runs in a thread of the           *)
(* threaded Flask server: a thread that can take its next step eventually *)
(* takes it (weak fairness of its steps), and a thread blocked in          *)
(* `with _lock:` is woken when the lock is free.                           *)
(***************************************************************************)
LockQuantity == MaxQuantity
LockSeats == MaxSeats

\* the steps of handler thread t inside and after the critical section
InvLeave(t) ==
    \/ InvReserveCommit(t)
    \/ InvReleaseCommit(t)
    \/ InvResetCommit(t)
    \/ InvRespond(t)

LockNext ==
    \/ \E t \in LedgerCalls, e \in CallEvents : reserve(t, e, LockQuantity)
    \/ \E t \in LedgerCalls, e \in CallEvents : release(t, e, LockQuantity)
    \/ \E t \in LedgerCalls, e \in CallEvents : reset(t, e, LockSeats)
    \/ \E t \in LedgerCalls : InvEnter(t)
    \/ \E t \in LedgerCalls : InvReserveCommit(t)
    \/ \E t \in LedgerCalls : InvReleaseCommit(t)
    \/ \E t \in LedgerCalls : InvResetCommit(t)
    \/ \E t \in LedgerCalls : InvRespond(t)

LockFairness ==
    \A t \in LedgerCalls : WF_vars(InvEnter(t)) /\ WF_vars(InvLeave(t))

LockSpec == LedgerInit /\ [][LockNext]_vars /\ LockFairness

\* the lock is held by the calls inside a critical section and by no other:
\* at most one, and none that has left by the write, by the 409 return or by
\* its answer
LockDiscipline ==
    /\ Cardinality(lock) <= 1
    /\ lock = {t \in DOMAIN inv : inv[t].pc = "locked"}

\* C26: the ledger lock is released on every path of reserve (success and the
\* 409 return inside the critical section), release and reset, at most one
\* call is inside the critical section at a time, and under fair scheduling
\* every call that waits for the lock eventually enters it and completes.
LockProgress ==
    /\ []LockDiscipline
    /\ \A t \in LedgerCalls :
         (inv[t].pc = "acquire") ~> (inv[t].pc \in {"locked", "respond", "done"})
    /\ \A t \in LedgerCalls :
         (inv[t].pc = "acquire") ~> (inv[t].pc = "done")

\* a reserve call left the critical section by the 409 return and a release
\* call by its write; a third call holds the lock after them
LockTakenAfterConflict ==
    \E t, u, w \in DOMAIN inv :
        /\ inv[t].op = "reserve" /\ inv[t].pc = "done" /\ inv[t].status = 409
        /\ inv[u].op = "release" /\ inv[u].pc = "done" /\ inv[u].status = 200
        /\ inv[w].op = "reset" /\ inv[w].pc = "locked"
        /\ lock = {w}

(***************************************************************************)
(* The whole system under fair scheduling.  The gateway and the           *)
(* orchestrator serve each request in a thread of its own; a handler       *)
(* thread that can take a step eventually takes one.  Every call a handler *)
(* waits for carries a timeout, so one of its steps is always possible.    *)
(* Nothing is assumed of the services called: the inventory, the payment   *)
(* service and the notification service may stop at any point, and the     *)
(* chaos flags change at any time.                                         *)
(***************************************************************************)
NumLive == 1
LiveRequests == 1..NumLive

\* the ways out of requests.post of the gateway, lines 66-86
GwLeave(r) == GwRelay(r) \/ GwTimeout(r) \/ GwUnavailable(r)

\* the next step of the orchestrator's handler of request r, once it runs
SagaStep(r) ==
    \/ SagaInventoryAnswer(r)
    \/ SagaInventoryTimeout(r)
    \/ SagaInventoryUnavailable(r)
    \/ SagaPaymentAnswer(r)
    \/ SagaPaymentTimeout(r)
    \/ SagaPaymentUnavailable(r)
    \/ \E flap \in BOOLEAN : SaveAttempt(r, flap)
    \/ SagaNotifyAnswer(r)
    \/ \E result \in {TimedOut, Unavailable} : SagaNotifyFailed(r, result)
    \/ SagaReleaseAnswer(r)
    \/ SagaReleaseTimeout(r)
    \/ SagaReleaseUnavailable(r)

LiveInit ==
    /\ InitInventory
    /\ inv = [t \in LiveRequests \X {"reserve", "release"} |-> IdleCall]
    /\ MAX_INFLIGHT = Capacity
    /\ inflight_semaphore = MAX_INFLIGHT
    /\ gw = [r \in LiveRequests |-> NewRequest]
    /\ saga = [r \in LiveRequests |-> IdleSaga]
    /\ reservations = <<>>
    /\ payments = [r \in LiveRequests |-> IdlePay]

LiveNext ==
    \/ \E r \in LiveRequests, e \in ReqEvents, q \in ReqQuantities :
          GwAdmit(r, e, q)
    \/ \E r \in LiveRequests : GwRelay(r)
    \/ \E r \in LiveRequests : GwTimeout(r)
    \/ \E r \in LiveRequests : GwUnavailable(r)
    \/ \E r \in LiveRequests : SagaReserve(r)
    \/ \E r \in LiveRequests : SagaInventoryAnswer(r)
    \/ \E r \in LiveRequests : SagaInventoryTimeout(r)
    \/ \E r \in LiveRequests : SagaInventoryUnavailable(r)
    \/ \E r \in LiveRequests : SagaPaymentAnswer(r)
    \/ \E r \in LiveRequests : SagaPaymentTimeout(r)
    \/ \E r \in LiveRequests : SagaPaymentUnavailable(r)
    \/ \E r \in LiveRequests, flap \in BOOLEAN : SaveAttempt(r, flap)
    \/ \E r \in LiveRequests : SagaNotifyAnswer(r)
    \/ \E r \in LiveRequests, result \in {TimedOut, Unavailable} :
          SagaNotifyFailed(r, result)
    \/ \E r \in LiveRequests : SagaReleaseAnswer(r)
    \/ \E r \in LiveRequests : SagaReleaseTimeout(r)
    \/ \E r \in LiveRequests : SagaReleaseUnavailable(r)
    \/ \E r \in LiveRequests : pay(r)
    \/ \E t \in DOMAIN inv : InvReceive(t)
    \/ \E t \in DOMAIN inv : InvEnter(t)
    \/ \E t \in DOMAIN inv : InvReserveCommit(t)
    \/ \E t \in DOMAIN inv : InvReleaseCommit(t)
    \/ \E t \in DOMAIN inv : InvRespond(t)
    \/ \E b \in BOOLEAN : crash(b)
    \/ \E b \in BOOLEAN : chaos_fail(b)
    \/ \E b \in BOOLEAN : toggle_db_flap(b)
    \/ \E b \in BOOLEAN : down(b)

LiveFairness ==
    \A r \in LiveRequests : WF_vars(GwLeave(r)) /\ WF_vars(SagaStep(r))

LiveSpec == LiveInit /\ [][LiveNext]_vars /\ LiveFairness

\* a request that got its response holds no slot, and a saga that ended has
\* a status to answer with
OneResponse ==
    \A r \in DOMAIN gw :
        /\ gw[r].pc = "done" =>
             /\ gw[r].status # 0
             /\ gw[r].released = gw[r].acquired
        /\ gw[r].pc = "waiting" => gw[r].status = 0 /\ gw[r].released = 0
        /\ saga[r].pc = "done" => saga[r].status # 0

\* a response is given once: after it neither the request nor the saga
\* changes, and the slot goes back in the step that produces the response
ResponseStep ==
    \A r \in DOMAIN gw :
        /\ gw[r].pc = "done" => gw'[r] = gw[r]
        /\ saga[r].pc = "done" => saga'[r] = saga[r]
        /\ (gw[r].pc = "waiting" /\ gw'[r].pc = "done") =>
             /\ gw'[r].released = gw[r].released + 1
             /\ inflight_semaphore' = inflight_semaphore + 1

\* C28: termination. Every request admitted by the gateway and every saga
\* started by the orchestrator eventually ends, with one response, whatever
\* the services called do (answer, reject, never answer, fail at transport
\* level, store failing at every attempt); the slot of the request is
\* released when its response is produced.
Termination ==
    /\ []OneResponse
    /\ [][ResponseStep]_vars
    /\ \A r \in LiveRequests :
         /\ (gw[r].pc = "waiting") ~> (gw[r].pc = "done")
         /\ (saga[r].pc \in {"inventory", "payment", "persist", "notify",
                             "release"}) ~> (saga[r].pc = "done")

\* the gateway gave up with 504 while the saga went on: the store failed at
\* every attempt, the release was never answered, and the saga ended with
\* 503 all the same
EndedWithNoAnswerFromAnyone ==
    \E r \in DOMAIN gw :
        /\ gw[r].pc = "done" /\ gw[r].status = 504
        /\ gw[r].acquired = 1 /\ gw[r].released = 1
        /\ saga[r].pc = "done" /\ saga[r].status = 503
        /\ saga[r].attempt = retries /\ ~saga[r].saved
        /\ saga[r].release_response = TimedOut
        /\ inv[ReleaseCall(r)].pc = "sent"

====
